---- MODULE Spec2Model ----
(***************************************************************************)
(* Model of build_items_index (scripts/openhab_crawler.py): the flat item  *)
(* index, the auxiliary locations/equipment dictionaries, the location     *)
(* forest, the depth-first equipment lookup and the placement of points.   *)
(*                                                                         *)
(* Python dictionaries are modelled with their insertion order: a dict is  *)
(* a record [keys |-> sequence of keys in first-insertion order,           *)
(* val |-> function from the keys to the values].  Node objects that the   *)
(* code shares by reference (location nodes, equipment nodes) are held     *)
(* once, keyed by their item name, and the lists that reference them hold  *)
(* that name.  The pass-through fields label, type, category and metadata  *)
(* are not interpreted by the code and are left out.                       *)
(***************************************************************************)
EXTENDS Integers, Sequences, FiniteSets, TLC

VARIABLES
    items,            \* the input list of raw item records
    pc,               \* position in build_items_index
    i,                \* index of the running for-loop
    items_by_name,    \* dict name -> flat index entry
    locations,        \* dict name -> {name, tags, groupNames}
    equipment,        \* dict name -> {name, tags, groupNames}
    location_nodes,   \* dict name -> location node
    eq_objs,          \* the equipment node objects created at line 187, by item name
    semantic_tree,    \* [locations |-> root list (references to location nodes)]
    equipment_nodes,  \* dict name -> reference to an equipment node
    stack,            \* call stack of collect_equipment_nodes
    visits            \* number of calls of collect_equipment_nodes per location node

vars == <<items, pc, i, items_by_name, locations, equipment, location_nodes,
          eq_objs, semantic_tree, equipment_nodes, stack, visits>>

(***************************************************************************)
(* Bounds of the input space.                                              *)
(***************************************************************************)
MaxItems == 3
MaxTags == 2

Names == {"A", "B", "C"}

SeqsUpTo(S, n) == UNION {[1..k -> S] : k \in 0..n}

TagLists ==
    { <<>>, <<"Location">>, <<"Equipment">>, <<"Point">>,
      <<"Location", "Equipment", "Point">> }

GroupLists == { <<>>, <<"A">>, <<"B">>, <<"A", "B">> }

ItemUniverse ==
    [name : Names, tags : TagLists, groupNames : GroupLists]
    \cup {[name |-> "", tags |-> <<"Location", "Equipment", "Point">>, groupNames |-> <<>>],
          [tags |-> <<"Location", "Equipment", "Point">>, groupNames |-> <<>>]}

TagUniverse ==
    {"Location", "Equipment", "Point", "IndoorLocation", "Locations", "Light", "Setpoint"}

ClassifyUniverse ==
    [name : {"A"}, tags : SeqsUpTo(TagUniverse, MaxTags), groupNames : {<<>>}]
    \cup {[name |-> "A"], [name |-> "A", groupNames |-> <<"B">>]}

(***************************************************************************)
(* Python helpers.                                                         *)
(***************************************************************************)
None == "<None>"

EmptyDict == [keys |-> <<>>, val |-> [k \in {} |-> None]]

Has(d, k) == k \in DOMAIN d.val

\* d[k] = v
DictSet(d, k, v) ==
    [keys |-> IF Has(d, k) THEN d.keys ELSE Append(d.keys, k),
     val  |-> [x \in (DOMAIN d.val) \cup {k} |-> IF x = k THEN v ELSE d.val[x]]]

\* it.get(field)
Get(it, field) == IF field \in DOMAIN it THEN it[field] ELSE None

\* truth value of a string-or-None
Truthy(x) == x # None /\ x # ""

\* it.get(field) or []
GetList(it, field) == IF field \in DOMAIN it THEN it[field] ELSE <<>>

\* str.endswith
endswith(t, s) ==
    Len(t) >= Len(s) /\ SubSeq(t, Len(t) - Len(s) + 1, Len(t)) = s

\* next(iter(seq), None)
FirstOrNone(s) == IF s = <<>> THEN None ELSE Head(s)

(***************************************************************************)
(* Tag classification, lines 126-132.                                      *)
(***************************************************************************)
\* exact match only: the suffix rule forgotten
is_location_exact(tags) == \E k \in 1..Len(tags) : tags[k] = "Location"

is_location(tags) ==
    \E k \in 1..Len(tags) : endswith(tags[k], "Location") \/ tags[k] = "Location"

is_equipment(tags) ==
    \E k \in 1..Len(tags) : endswith(tags[k], "Equipment") \/ tags[k] = "Equipment"

is_point(tags) ==
    \E k \in 1..Len(tags) : endswith(tags[k], "Point") \/ tags[k] = "Point"

property_tags(tags) ==
    SelectSeq(tags, LAMBDA t : t \notin {"Location", "Equipment", "Point"})

(***************************************************************************)
(* Flat index, lines 117-155.                                              *)
(***************************************************************************)
Entry(it) ==
    LET tags == GetList(it, "tags")
        group_names == GetList(it, "groupNames")
    IN  [name       |-> it.name,
         tags       |-> tags,
         groupNames |-> group_names,
         semantic   |-> [isLocation   |-> is_location(tags),
                         isEquipment  |-> is_equipment(tags),
                         isPoint      |-> is_point(tags),
                         propertyTags |-> property_tags(tags)],
         rest_url   |-> "/rest/items/" \o it.name]

Aux(it) ==
    [name |-> it.name, tags |-> GetList(it, "tags"),
     groupNames |-> GetList(it, "groupNames")]

\* lines 118-120: `if not name: continue`
skipped(it) == ~Truthy(Get(it, "name"))

\* first write wins: an existing entry is kept
store_item_first_wins(d, it) == IF Has(d, it.name) THEN d ELSE DictSet(d, it.name, Entry(it))

\* line 134
store_item(d, it) == DictSet(d, it.name, Entry(it))

\* lines 152-153
store_location(d, it) ==
    IF is_location(GetList(it, "tags")) THEN DictSet(d, it.name, Aux(it)) ELSE d

\* lines 154-155
store_equipment(d, it) ==
    IF is_equipment(GetList(it, "tags")) THEN DictSet(d, it.name, Aux(it)) ELSE d

IndexItem ==
    /\ pc = "index"
    /\ i <= Len(items)
    /\ LET it == items[i] IN
         IF skipped(it)
         THEN UNCHANGED <<items_by_name, locations, equipment>>
         ELSE /\ items_by_name' = store_item(items_by_name, it)
              /\ locations' = store_location(locations, it)
              /\ equipment' = store_equipment(equipment, it)
    /\ i' = i + 1
    /\ UNCHANGED <<items, pc, location_nodes, eq_objs, semantic_tree,
                   equipment_nodes, stack, visits>>

IndexExit ==
    /\ pc = "index"
    /\ i > Len(items)
    /\ pc' = "nodes"
    /\ UNCHANGED <<items, i, items_by_name, locations, equipment, location_nodes,
                   eq_objs, semantic_tree, equipment_nodes, stack, visits>>

(***************************************************************************)
(* Location nodes, lines 157-168.                                          *)
(***************************************************************************)
NewLocationNode(loc_name) ==
    [item |-> loc_name, children_locations |-> <<>>, equipment |-> <<>>, points |-> <<>>]

CreateLocationNodes ==
    /\ pc = "nodes"
    /\ location_nodes' =
         [keys |-> locations.keys,
          val  |-> [n \in DOMAIN locations.val |-> NewLocationNode(n)]]
    /\ visits' = [n \in DOMAIN locations.val |-> 0]
    /\ pc' = "hierarchy"
    /\ i' = 1
    /\ UNCHANGED <<items, items_by_name, locations, equipment, eq_objs,
                   semantic_tree, equipment_nodes, stack>>

(***************************************************************************)
(* Location hierarchy, lines 170-178.                                      *)
(***************************************************************************)
\* [g for g in group_names if g in location_nodes]
parent_locations(group_names, nodes) ==
    SelectSeq(group_names, LAMBDA g : Has(nodes, g))

\* every location is put in the root list, whether it has a parent or not
roots_after_always(roots, loc_name, parents) == Append(roots, loc_name)

\* lines 173-175: the root list after the location loc_name was handled
roots_after(roots, loc_name, parents) ==
    IF parents = <<>> THEN Append(roots, loc_name) ELSE roots

\* lines 176-178: the location nodes after the location loc_name was handled
children_after(nodes, loc_name, parents) ==
    IF parents = <<>>
    THEN nodes
    ELSE LET parent == parents[1] IN
         [nodes EXCEPT !.val[parent].children_locations = Append(@, loc_name)]

AssignLocation ==
    /\ pc = "hierarchy"
    /\ i <= Len(locations.keys)
    /\ LET loc_name == locations.keys[i]
           loc == locations.val[loc_name]
           parents == parent_locations(loc.groupNames, location_nodes)
       IN  /\ semantic_tree' =
                [locations |-> roots_after(semantic_tree.locations, loc_name, parents)]
           /\ location_nodes' = children_after(location_nodes, loc_name, parents)
    /\ i' = i + 1
    /\ UNCHANGED <<items, pc, items_by_name, locations, equipment, eq_objs,
                   equipment_nodes, stack, visits>>

HierarchyExit ==
    /\ pc = "hierarchy"
    /\ i > Len(locations.keys)
    /\ pc' = "equipment"
    /\ i' = 1
    /\ UNCHANGED <<items, items_by_name, locations, equipment, location_nodes,
                   eq_objs, semantic_tree, equipment_nodes, stack, visits>>

(***************************************************************************)
(* Equipment under locations, lines 180-187.                               *)
(***************************************************************************)
NewEquipmentNode(eq_name) == [item |-> eq_name, points |-> <<>>]

\* line 187: the location nodes after the equipment eq_name was handled
attach_equipment(nodes, eq_name, parents) ==
    IF parents = <<>>
    THEN nodes
    ELSE LET parent == parents[1] IN
         [nodes EXCEPT !.val[parent].equipment = Append(@, eq_name)]

\* line 187: the equipment node objects after the equipment eq_name was handled
create_equipment(objs, eq_name, parents) ==
    IF parents = <<>> THEN objs ELSE DictSet(objs, eq_name, NewEquipmentNode(eq_name))

MapEquipment ==
    /\ pc = "equipment"
    /\ i <= Len(equipment.keys)
    /\ LET eq_name == equipment.keys[i]
           eq == equipment.val[eq_name]
           parents == parent_locations(eq.groupNames, location_nodes)
       IN  /\ location_nodes' = attach_equipment(location_nodes, eq_name, parents)
           /\ eq_objs' = create_equipment(eq_objs, eq_name, parents)
    /\ i' = i + 1
    /\ UNCHANGED <<items, pc, items_by_name, locations, equipment, semantic_tree,
                   equipment_nodes, stack, visits>>

EquipmentExit ==
    /\ pc = "equipment"
    /\ i > Len(equipment.keys)
    /\ pc' = "collect"
    /\ i' = 1
    /\ UNCHANGED <<items, items_by_name, locations, equipment, location_nodes,
                   eq_objs, semantic_tree, equipment_nodes, stack, visits>>

(***************************************************************************)
(* collect_equipment_nodes, lines 189-198.  A frame of the call stack is   *)
(* the location node of the call and the index of the next child to        *)
(* recurse into; the first loop of a call (lines 192-193) runs when the    *)
(* call is entered.  The depth of the stack is capped at MaxStack.         *)
(***************************************************************************)
MaxStack == MaxItems + 1

RECURSIVE register_equipment(_, _)
\* lines 192-193: for eq in loc_node["equipment"]: equipment_nodes[eq["item"]] = eq
register_equipment(lookup, eqs) ==
    IF eqs = <<>>
    THEN lookup
    ELSE register_equipment(DictSet(lookup, Head(eqs), Head(eqs)), Tail(eqs))

Frame(loc_name) == [node |-> loc_name, child |-> 1]

\* entering collect_equipment_nodes(location_nodes[loc_name])
Call(loc_name) ==
    /\ Len(stack) < MaxStack
    /\ equipment_nodes' =
         register_equipment(equipment_nodes, location_nodes.val[loc_name].equipment)
    /\ visits' = [visits EXCEPT ![loc_name] = @ + 1]

\* lines 197-198
CollectRoot ==
    /\ pc = "collect"
    /\ stack = <<>>
    /\ i <= Len(semantic_tree.locations)
    /\ Call(semantic_tree.locations[i])
    /\ stack' = <<Frame(semantic_tree.locations[i])>>
    /\ i' = i + 1
    /\ UNCHANGED <<items, pc, items_by_name, locations, equipment, location_nodes,
                   eq_objs, semantic_tree>>

\* lines 194-195
CollectChild ==
    /\ pc = "collect"
    /\ stack # <<>>
    /\ LET top == stack[Len(stack)]
           children == location_nodes.val[top.node].children_locations
       IN  /\ top.child <= Len(children)
           /\ Call(children[top.child])
           /\ stack' = Append([stack EXCEPT ![Len(stack)].child = @ + 1],
                              Frame(children[top.child]))
    /\ UNCHANGED <<items, pc, i, items_by_name, locations, equipment, location_nodes,
                   eq_objs, semantic_tree>>

\* the call returns when its loop over children_locations is exhausted
CollectReturn ==
    /\ pc = "collect"
    /\ stack # <<>>
    /\ LET top == stack[Len(stack)]
           children == location_nodes.val[top.node].children_locations
       IN  top.child > Len(children)
    /\ stack' = SubSeq(stack, 1, Len(stack) - 1)
    /\ UNCHANGED <<items, pc, i, items_by_name, locations, equipment, location_nodes,
                   eq_objs, semantic_tree, equipment_nodes, visits>>

CollectExit ==
    /\ pc = "collect"
    /\ stack = <<>>
    /\ i > Len(semantic_tree.locations)
    /\ pc' = "points"
    /\ i' = 1
    /\ UNCHANGED <<items, items_by_name, locations, equipment, location_nodes,
                   eq_objs, semantic_tree, equipment_nodes, stack, visits>>

(***************************************************************************)
(* Points, lines 200-219.                                                  *)
(***************************************************************************)
\* line 208: next((g for g in group_names if g in equipment_nodes), None)
parent_eq(group_names, lookup) ==
    FirstOrNone(SelectSeq(group_names, LAMBDA g : Has(lookup, g)))

\* line 214: next((g for g in group_names if g in location_nodes), None)
parent_loc(group_names, nodes) ==
    FirstOrNone(SelectSeq(group_names, LAMBDA g : Has(nodes, g)))

\* location groups tried before equipment groups
place_point_location_first(name, it, objs, nodes, lookup) ==
    IF ~it.semantic.isPoint
    THEN [eq |-> objs, loc |-> nodes]
    ELSE LET peq == parent_eq(it.groupNames, lookup)
             ploc == parent_loc(it.groupNames, nodes)
         IN  IF Truthy(ploc)
             THEN [eq  |-> objs,
                   loc |-> [nodes EXCEPT !.val[ploc].points =
                                             Append(@, [item |-> name])]]
             ELSE IF Truthy(peq)
             THEN [eq  |-> [objs EXCEPT !.val[lookup.val[peq]].points =
                                            Append(@, [item |-> name])],
                   loc |-> nodes]
             ELSE [eq |-> objs, loc |-> nodes]

\* the `continue` of line 211 missing: the location fallback runs as well
place_point_no_continue(name, it, objs, nodes, lookup) ==
    IF ~it.semantic.isPoint
    THEN [eq |-> objs, loc |-> nodes]
    ELSE LET peq == parent_eq(it.groupNames, lookup)
             ploc == parent_loc(it.groupNames, nodes)
         IN  [eq  |-> IF Truthy(peq)
                      THEN [objs EXCEPT !.val[lookup.val[peq]].points =
                                            Append(@, [item |-> name])]
                      ELSE objs,
              loc |-> IF Truthy(ploc)
                      THEN [nodes EXCEPT !.val[ploc].points =
                                             Append(@, [item |-> name])]
                      ELSE nodes]

\* lines 202-217 for one entry of items_by_name: the equipment node objects
\* and the location nodes after it
place_point(name, it, objs, nodes, lookup) ==
    IF ~it.semantic.isPoint
    THEN [eq |-> objs, loc |-> nodes]
    ELSE LET peq == parent_eq(it.groupNames, lookup)
             ploc == parent_loc(it.groupNames, nodes)
         IN  IF Truthy(peq)
             THEN [eq  |-> [objs EXCEPT !.val[lookup.val[peq]].points =
                                            Append(@, [item |-> name])],
                   loc |-> nodes]
             ELSE IF Truthy(ploc)
             THEN [eq  |-> objs,
                   loc |-> [nodes EXCEPT !.val[ploc].points =
                                             Append(@, [item |-> name])]]
             ELSE [eq |-> objs, loc |-> nodes]

AssignPoint ==
    /\ pc = "points"
    /\ i <= Len(items_by_name.keys)
    /\ LET name == items_by_name.keys[i]
           placed == place_point(name, items_by_name.val[name], eq_objs,
                                 location_nodes, equipment_nodes)
       IN  /\ eq_objs' = placed.eq
           /\ location_nodes' = placed.loc
    /\ i' = i + 1
    /\ UNCHANGED <<items, pc, items_by_name, locations, equipment, semantic_tree,
                   equipment_nodes, stack, visits>>

\* lines 221-224
Return ==
    /\ pc = "points"
    /\ i > Len(items_by_name.keys)
    /\ pc' = "done"
    /\ UNCHANGED <<items, i, items_by_name, locations, equipment, location_nodes,
                   eq_objs, semantic_tree, equipment_nodes, stack, visits>>

(***************************************************************************)
(* Specifications.                                                         *)
(***************************************************************************)
Start ==
    /\ pc = "index"
    /\ i = 1
    /\ items_by_name = EmptyDict
    /\ locations = EmptyDict
    /\ equipment = EmptyDict
    /\ location_nodes = EmptyDict
    /\ eq_objs = EmptyDict
    /\ semantic_tree = [locations |-> <<>>]
    /\ equipment_nodes = EmptyDict
    /\ stack = <<>>
    /\ visits = [n \in {} |-> 0]

Init ==
    /\ items \in SeqsUpTo(ItemUniverse, MaxItems)
    /\ Start

Next ==
    \/ IndexItem
    \/ IndexExit
    \/ CreateLocationNodes
    \/ AssignLocation
    \/ HierarchyExit
    \/ MapEquipment
    \/ EquipmentExit
    \/ CollectRoot
    \/ CollectChild
    \/ CollectReturn
    \/ CollectExit
    \/ AssignPoint
    \/ Return

Spec == Init /\ [][Next]_vars

\* Inputs for the traversal: locations over every group list of at most one name,
\* so that self-loops and cycles of two and three locations occur, and equipment
\* in group A.  build_items_index is one synchronous call: it keeps running until
\* it returns.
TraverseUniverse ==
    [name : Names, tags : {<<"Location">>}, groupNames : SeqsUpTo(Names, 1)]
    \cup [name : Names, tags : {<<"Equipment">>}, groupNames : {<<"A">>}]

InitTraverse ==
    /\ items \in SeqsUpTo(TraverseUniverse, MaxItems)
    /\ Start

SpecTraverse == InitTraverse /\ [][Next]_vars /\ WF_vars(Next)

\* the tag classifier and the flat index alone, over a wider set of tag lists
InitClassify ==
    /\ items \in {<<it>> : it \in ClassifyUniverse}
    /\ Start

NextClassify ==
    \/ IndexItem
    \/ IndexExit

SpecClassify == InitClassify /\ [][NextClassify]_vars

(***************************************************************************)
(* Vocabulary of the properties.  An item is a key of the flat index; its  *)
(* role and its groupNames are the ones of its items_by_name entry.        *)
(***************************************************************************)
Done == pc = "done"

ItemNames == DOMAIN items_by_name.val

IsLocationItem(n) == n \in ItemNames /\ items_by_name.val[n].semantic.isLocation

IsEquipmentItem(n) == n \in ItemNames /\ items_by_name.val[n].semantic.isEquipment

IsPointItem(n) == n \in ItemNames /\ items_by_name.val[n].semantic.isPoint

GroupsOf(n) == items_by_name.val[n].groupNames

InSeq(x, s) == \E k \in 1..Len(s) : s[k] = x

Count(x, s) == Cardinality({k \in 1..Len(s) : s[k] = x})

LocNodes == DOMAIN location_nodes.val

EqNodes == DOMAIN eq_objs.val

Roots == semantic_tree.locations

ChildrenOf(n) == location_nodes.val[n].children_locations

\* the entries of the item's groupNames that name a Location item, in order
LocationGroups(n) == SelectSeq(GroupsOf(n), LAMBDA g : IsLocationItem(g))

RECURSIVE Reach(_, _)
Reach(T, k) ==
    IF k = 0
    THEN T
    ELSE Reach(T \cup {c \in LocNodes : \E t \in T : InSeq(c, ChildrenOf(t))}, k - 1)

\* the location nodes reachable from the root list through children_locations
ReachableLocs == Reach({r \in LocNodes : InSeq(r, Roots)}, Cardinality(LocNodes))

\* the equipment placed in the forest
PlacedEquipment ==
    {e \in EqNodes : \E l \in ReachableLocs : InSeq(e, location_nodes.val[l].equipment)}

\* the places of the result that reference the point n
PointOwners(n) ==
    UNION {{<<"equipment", e, k>> :
              k \in {j \in 1..Len(eq_objs.val[e].points) :
                       eq_objs.val[e].points[j] = [item |-> n]}} : e \in EqNodes}
    \cup
    UNION {{<<"location", l, k>> :
              k \in {j \in 1..Len(location_nodes.val[l].points) :
                       location_nodes.val[l].points[j] = [item |-> n]}} : l \in LocNodes}

OwnedByLocation(n) == \E o \in PointOwners(n) : o[1] = "location"

OwnedByEquipment(n, e) == \E o \in PointOwners(n) : o[1] = "equipment" /\ o[2] = e

\* the places of the forest (root list, child lists of reachable nodes) holding n
ForestSlots(n) ==
    {<<"root", k>> : k \in {j \in 1..Len(Roots) : Roots[j] = n}}
    \cup
    UNION {{<<l, k>> : k \in {j \in 1..Len(ChildrenOf(l)) : ChildrenOf(l)[j] = n}} :
             l \in ReachableLocs}

(***************************************************************************)
(* C1.  Point placement precedence.                                        *)
(***************************************************************************)
\* every input record has a name of its own
DistinctNames ==
    /\ \A k \in 1..Len(items) : "name" \in DOMAIN items[k] /\ items[k].name # ""
    /\ \A j, k \in 1..Len(items) : j # k => items[j].name # items[k].name

RECURSIVE GroupsAbove(_, _)
GroupsAbove(T, k) ==
    IF k = 0
    THEN T
    ELSE GroupsAbove(T \cup {g \in ItemNames : \E t \in T : InSeq(g, GroupsOf(t))}, k - 1)

\* no item is, through groupNames, a member of itself
AcyclicGroups ==
    \A n \in ItemNames :
      n \notin GroupsAbove({g \in ItemNames : InSeq(g, GroupsOf(n))}, Cardinality(ItemNames))

\* C1 as stated: a Point item whose groupNames name an Equipment item E and a
\* Location item L is referenced from E's points list and from no location node.
\* (Stated for three different items P, E, L of an input with distinct names and
\* acyclic group membership: a violation there is a violation of the claim for
\* every input.)
C1_PointPrecedence_Original ==
    (Done /\ DistinctNames /\ AcyclicGroups) =>
      \A P \in ItemNames : \A E \in ItemNames : \A L \in ItemNames :
        ( /\ IsPointItem(P) /\ IsEquipmentItem(E) /\ IsLocationItem(L)
          /\ P # E /\ P # L /\ E # L
          /\ InSeq(E, GroupsOf(P)) /\ InSeq(L, GroupsOf(P)) )
        => /\ E \in EqNodes
           /\ OwnedByEquipment(P, E)
           /\ ~OwnedByLocation(P)

\* C1 as amended: a Point item whose groupNames name at least one equipment placed
\* in the forest (in the equipment list of a location node reachable from the root
\* list) is referenced from the points list of the first such equipment in
\* groupNames order, from no other equipment and from no location node.
C1_PointPrecedence ==
    Done =>
      \A P \in ItemNames :
        LET placed == SelectSeq(GroupsOf(P), LAMBDA g : g \in PlacedEquipment) IN
        (IsPointItem(P) /\ placed # <<>>)
        => /\ OwnedByEquipment(P, placed[1])
           /\ Cardinality(PointOwners(P)) = 1

C1_Witness ==
    /\ Done
    /\ \E P \in ItemNames : \E E \in PlacedEquipment : \E L \in LocNodes :
         /\ IsPointItem(P) /\ P # E /\ P # L
         /\ InSeq(E, GroupsOf(P)) /\ InSeq(L, GroupsOf(P))
         /\ IsLocationItem(L)
         /\ OwnedByEquipment(P, E)

(***************************************************************************)
(* C2.  Root detection.                                                    *)
(***************************************************************************)
\* C2: a Location item none of whose groupNames entries names a Location item
\* other than itself is an element of the root list.
C2_RootDetection ==
    Done =>
      \A L \in ItemNames :
        ( /\ IsLocationItem(L)
          /\ \A k \in 1..Len(GroupsOf(L)) :
               ~(GroupsOf(L)[k] # L /\ IsLocationItem(GroupsOf(L)[k])) )
        => InSeq(L, Roots)

(***************************************************************************)
(* C3.  First-match tie-break.                                             *)
(***************************************************************************)
\* C3: a Location or Equipment item X with a groupNames entry naming a Location
\* item is in the child list of the node of the first such entry, in no other
\* child list of that kind, and (a location) not in the root list.
C3_FirstMatch ==
    Done =>
      \A X \in ItemNames :
        LET cands == LocationGroups(X) IN
        /\ (IsLocationItem(X) /\ cands # <<>>)
           => /\ \A l \in LocNodes :
                   Count(X, ChildrenOf(l)) = (IF l = cands[1] THEN 1 ELSE 0)
              /\ ~InSeq(X, Roots)
        /\ (IsEquipmentItem(X) /\ cands # <<>>)
           => \A l \in LocNodes :
                Count(X, location_nodes.val[l].equipment) = (IF l = cands[1] THEN 1 ELSE 0)

(***************************************************************************)
(* C6.  Orphan equipment omission.                                         *)
(***************************************************************************)
\* C6: an Equipment item none of whose groupNames entries names a Location item
\* is in no equipment list of any location node and is still in items_by_name.
C6_OrphanEquipment ==
    Done =>
      \A E \in ItemNames :
        (IsEquipmentItem(E) /\ LocationGroups(E) = <<>>)
        => /\ \A l \in LocNodes : ~InSeq(E, location_nodes.val[l].equipment)
           /\ Has(items_by_name, E)

(***************************************************************************)
(* C7.  Single ownership of points.                                        *)
(***************************************************************************)
\* C7: every name is referenced at most once over all points lists of all
\* equipment nodes and location nodes together.
C7_SingleOwnership ==
    pc \in {"points", "done"} => \A n \in ItemNames : Cardinality(PointOwners(n)) <= 1

C7_Witness ==
    /\ Done
    /\ \E P \in ItemNames : \E E \in EqNodes : \E L \in LocNodes :
         /\ OwnedByEquipment(P, E)
         /\ InSeq(L, GroupsOf(P))
         /\ IsLocationItem(P) /\ IsEquipmentItem(P)
         /\ Cardinality({k \in 1..Len(items) : "name" \in DOMAIN items[k] /\ items[k].name = P}) > 1

(***************************************************************************)
(* C8.  Forest completeness for locations.                                 *)
(***************************************************************************)
\* C8: every Location item occurs exactly once among the nodes reachable from
\* the root list through children_locations.
C8_ForestComplete ==
    Done => \A L \in ItemNames : IsLocationItem(L) => Cardinality(ForestSlots(L)) = 1

(***************************************************************************)
(* C10.  Forest / flat-index consistency under duplicate names.            *)
(***************************************************************************)
\* C10: every name with a location node is a Location item of items_by_name, every
\* name with an equipment node is an Equipment item, and the parent of each is the
\* first location-naming entry of the groupNames of its items_by_name entry.
C10_ForestMatchesIndex ==
    Done =>
      /\ \A n \in LocNodes :
           /\ IsLocationItem(n)
           /\ LET cands == SelectSeq(GroupsOf(n), LAMBDA g : g \in LocNodes) IN
              IF cands = <<>>
              THEN InSeq(n, Roots)
              ELSE InSeq(n, ChildrenOf(cands[1]))
      /\ \A n \in EqNodes :
           /\ IsEquipmentItem(n)
           /\ LET cands == SelectSeq(GroupsOf(n), LAMBDA g : g \in LocNodes) IN
              /\ cands # <<>>
              /\ InSeq(n, location_nodes.val[cands[1]].equipment)

(***************************************************************************)
(* C4.  Classification correctness (checked under SpecClassify).           *)
(***************************************************************************)
\* the positions of the input records already indexed
Indexed == IF pc = "index" THEN 1..(i - 1) ELSE 1..Len(items)

\* the positions of the indexed input records that carry the non-empty name n
RecordsNamed(n) ==
    {k \in Indexed : "name" \in DOMAIN items[k] /\ items[k].name = n /\ n # ""}

Max(S) == CHOOSE x \in S : \A y \in S : y <= x

\* the last indexed input record that carries the name n
LastRecord(n) == items[Max(RecordsNamed(n))]

\* every way of cutting a tag of the universe in two
Prefixes == UNION {{SubSeq(t, 1, k) : k \in 0..Len(t)} : t \in TagUniverse}

\* tag ends with the string marker
HasSuffix(tag, marker) == \E p \in Prefixes : tag = p \o marker

RECURSIVE WithoutLiterals(_)
WithoutLiterals(tags) ==
    IF tags = <<>>
    THEN <<>>
    ELSE IF Head(tags) = "Location" \/ Head(tags) = "Equipment" \/ Head(tags) = "Point"
    THEN WithoutLiterals(Tail(tags))
    ELSE <<Head(tags)>> \o WithoutLiterals(Tail(tags))

\* the tag list received with a raw record: empty when the field is absent
RawTags(it) == IF "tags" \in DOMAIN it THEN it.tags ELSE <<>>

\* C4: for every indexed record, each flag is true iff some tag ends with its
\* marker, and propertyTags is the tag list without the three literal markers
\* (order and duplicates kept); no tags give all flags false and no propertyTags.
C4_Classification ==
    \A n \in ItemNames :
      /\ RecordsNamed(n) # {}
      /\ LET tags == RawTags(LastRecord(n))
             sem == items_by_name.val[n].semantic
         IN  /\ sem.isLocation = (\E j \in 1..Len(tags) : HasSuffix(tags[j], "Location"))
             /\ sem.isEquipment = (\E j \in 1..Len(tags) : HasSuffix(tags[j], "Equipment"))
             /\ sem.isPoint = (\E j \in 1..Len(tags) : HasSuffix(tags[j], "Point"))
             /\ sem.propertyTags = WithoutLiterals(tags)
             /\ tags = <<>> => sem = [isLocation |-> FALSE, isEquipment |-> FALSE,
                                      isPoint |-> FALSE, propertyTags |-> <<>>]

C4_Witness ==
    /\ pc = "nodes"
    /\ Len(items) = 1
    /\ RawTags(items[1]) = <<"IndoorLocation", "Location">>
    /\ items_by_name.val["A"].semantic =
         [isLocation |-> TRUE, isEquipment |-> FALSE, isPoint |-> FALSE,
          propertyTags |-> <<"IndoorLocation">>]

(***************************************************************************)
(* C5.  Flat index keys and last-write-wins.                               *)
(***************************************************************************)
\* C5: when the input is indexed, the keys of items_by_name are the non-empty names
\* of the input records, and each entry is the one computed from the last record of its name.
C5_LastWriteWins ==
    pc = "nodes" =>
    /\ ItemNames = {n \in Names \cup {""} : RecordsNamed(n) # {}}
    /\ \A n \in ItemNames :
         RecordsNamed(n) # {} => items_by_name.val[n] = Entry(LastRecord(n))

C5_Witness ==
    /\ pc = "nodes"
    /\ \E a, b, c \in 1..Len(items) :
         /\ a < b
         /\ RecordsNamed("A") = {a, b}
         /\ items[a] # items[b]
         /\ "name" \notin DOMAIN items[c] \/ items[c].name = ""
    /\ ItemNames = {"A"}

(***************************************************************************)
(* C9.  Termination under cyclic group membership (checked under FairSpec).*)
(***************************************************************************)
\* n is its own descendant through children_locations
RECURSIVE Below(_, _)
Below(T, k) ==
    IF k = 0
    THEN T
    ELSE Below(T \cup {c \in LocNodes : \E t \in T : InSeq(c, ChildrenOf(t))}, k - 1)

OnCycle(n) ==
    n \in Below({c \in LocNodes : InSeq(c, ChildrenOf(n))}, Cardinality(LocNodes))

\* C9: collect_equipment_nodes is entered at most once per location node, no
\* location node on the call stack is its own descendant, and the build returns.
C9_Terminates ==
    /\ [](\A n \in DOMAIN visits : visits[n] <= 1)
    /\ [](\A k \in 1..Len(stack) : ~OnCycle(stack[k].node))
    /\ <>Done

C9_Witness ==
    /\ Done
    /\ \E n \in LocNodes : OnCycle(n) /\ visits[n] = 0
    /\ \E r \in LocNodes : InSeq(r, Roots) /\ ChildrenOf(r) # <<>> /\ visits[r] = 1
====
